---- MODULE Spec2Model ----
(***************************************************************************)
(* State-machine model of src/script.js: the behaviour layer of a          *)
(* single-page portfolio (scroll progress bar, scroll spy, mobile menu,    *)
(* mock contact form, startup routine).                                    *)
(*                                                                         *)
(* The script is event driven and single threaded: every listener runs to  *)
(* completion.  One action of the model is one browser event, and it runs  *)
(* every listener the script registered for that event, in registration    *)
(* and bubbling order.  A listener that throws ends alone: the browser     *)
(* reports the exception and goes on with the next listener.               *)
(***************************************************************************)
EXTENDS Integers, Sequences, FiniteSets, TLC

VARIABLES
    \* ---- the page the script runs on (fixed during a behaviour)
    present,          \* ids of the expected elements that exist in the page
    hasIO,            \* 'IntersectionObserver' in window
    hrefOk,           \* every .nav-link has an href that is a valid selector
    sections,         \* section ids for which document.querySelector(href) finds an element
    toggleInNavbar,   \* elements.navbar.contains(elements.mobileToggle)
    linksInNavbar,    \* elements.navbar.contains(link) for the .nav-link items
    dataSection,      \* link -> its data-section attribute
    revealCount,      \* elements.revealElements.length
    sectionTop,       \* section id -> the section's top edge in the document
    framePeriod,      \* the time from one animation frame to the next
    \* ---- startup
    started,          \* init() has run
    handlers,         \* the listeners / observers init() registered
    initError,        \* init() ended in its catch block
    \* ---- navigation
    isNavOpen,        \* script.js:28
    currentSection,   \* script.js:29
    toggleActive,     \* elements.mobileToggle.classList.contains('active')
    navLinksActive,   \* elements.navLinks.classList.contains('active')
    bodyOverflow,     \* document.body.style.overflow
    linkActive,       \* link -> link.classList.contains('active')
    innerWidth,       \* window.innerWidth
    \* ---- progress bar
    innerHeight,      \* window.innerHeight
    scrollHeight,     \* document.documentElement.scrollHeight
    pageYOffset,      \* window.pageYOffset
    barWidth,         \* the value last assigned to elements.progressBar.style.width
    inThrottle,       \* the throttle wrapper's flag (script.js:47)
    loaded,           \* the window's load event has fired
    \* ---- contact form
    fields,           \* the form's current name / email / message values
    submitDisabled,   \* submitButton.disabled
    submitLabel,      \* submitButton.textContent
    statusText,       \* elements.formStatus.textContent
    statusClass,      \* elements.formStatus.className
    \* ---- reveal animations
    observed,         \* the reveal elements the reveal observer still observes
    shown,            \* the reveal elements that have class 'show'
    \* ---- smooth scroll
    hash,             \* the id window.location.hash names, "" without a fragment
    anims,            \* pending requestAnimationFrame callbacks, in request order
    frameGap,         \* time has passed since the last animation frame
    \* ---- timers
    timers,           \* pending setTimeout callbacks, in creation order
    \* ---- history (observation only, never read by the program)
    thrown,           \* the listeners that threw while the last event was handled
    hist,             \* the last two events, each with the menu state before it
    calls,            \* the last two setActiveLink calls
    everPassed,       \* some setActiveLink call has rewritten the link classes
    lastUpdate,       \* the inputs progressBar.update last read
    submitted,        \* the field values the last submit event carried
    scheduled,        \* reveal element -> show timers started for it so far
    scrolls,          \* the smooth scrolls started so far that requested a frame
    writes,           \* the window.scrollTo calls of the last animation frame
    budget            \* events the run may still handle; -1 when unlimited

envVars   == <<present, hasIO, hrefOk, sections, toggleInNavbar, linksInNavbar, dataSection,
               revealCount, sectionTop, framePeriod>>
startVars == <<started, handlers, initError>>
navVars   == <<isNavOpen, toggleActive, navLinksActive, bodyOverflow>>
spyVars   == <<currentSection, linkActive, calls, everPassed>>
progVars  == <<innerHeight, scrollHeight, pageYOffset, barWidth, inThrottle, loaded,
               lastUpdate>>
formVars  == <<fields, submitDisabled, submitLabel, statusText, statusClass, submitted>>
revealVars == <<observed, shown, scheduled>>
animVars  == <<hash, anims, frameGap, scrolls, writes>>
vars == <<envVars, startVars, navVars, spyVars, innerWidth, progVars, formVars,
          revealVars, animVars, timers, thrown, hist, budget>>

----------------------------------------------------------------------------
(* Program constants *)

MobileBreakpoint == 768
ThrottleLimit == 10
SubmitDelay == 1500
StatusHideDelay == 5000
RevealStagger == 50
HashScrollDelay == 100
DefaultDuration == 800
HashDuration == 1000
ScrollMargin == 80

(* The expected elements (script.js:6-16) and the form's submit control
   (script.js:287). *)
Expected == {"progress", "navbar", "navLinks", "mobileToggle",
             "contactForm", "formStatus", "submitButton"}

(* The .nav-link items; a link is named by the id its href points to. *)
Links == {"home", "about", "contact"}


----------------------------------------------------------------------------
(* JavaScript numbers.  The model keeps the quotients the program computes
   as exact fractions, and the three non-finite results of a division. *)

(* Euclid's algorithm; x and y are the values of a and b. *)
RECURSIVE GCD(_, _)
GCD(a, b) ==
    CHOOSE g \in {IF y = 0 THEN x ELSE GCD(y, x % y) : <<x, y>> \in {<<a, b>>}} : TRUE

Abs(a) == IF a < 0 THEN -a ELSE a

(* The fraction n/d (d # 0) in lowest terms with a positive denominator. *)
Frac(n, d) ==
    LET g == GCD(Abs(n), Abs(d))
        sgn == IF d < 0 THEN -1 ELSE 1
    IN  [kind |-> "num", num |-> sgn * (n \div g), den |-> Abs(d) \div g]

NaN == [kind |-> "nan", num |-> 0, den |-> 1]
PosInf == [kind |-> "inf", num |-> 1, den |-> 1]
NegInf == [kind |-> "ninf", num |-> -1, den |-> 1]
Unset == [kind |-> "unset", num |-> 0, den |-> 1]

(* a / b for integers a and b: 0/0 is NaN, x/0 is +-Infinity. *)
JsDiv(a, b) ==
    IF b # 0 THEN Frac(a, b)
    ELSE IF a = 0 THEN NaN
    ELSE IF a > 0 THEN PosInf ELSE NegInf

(* Math.min(x, 1): NaN stays NaN. *)
JsMinOne(x) ==
    CASE x.kind = "nan" -> NaN
      [] x.kind = "inf" -> Frac(1, 1)
      [] x.kind = "ninf" -> NegInf
      [] OTHER -> IF x.num > x.den THEN Frac(1, 1) ELSE x

(* x * 100 *)
JsTimes100(x) ==
    IF x.kind = "num" THEN Frac(100 * x.num, x.den) ELSE x

(* utils.getScrollProgress, script.js:63-69, as a function of what it
   reads.  window.pageYOffset and documentElement.scrollTop are the same
   number, so the || of line 66 yields it in both branches. *)
(* getScrollProgress dividing by the document height instead of the track
   length. *)
getScrollProgress_byDocHeight(winHeight, docHeight, yOffset) ==
    LET scrollTop == IF yOffset # 0 THEN yOffset ELSE yOffset
    IN  JsMinOne(JsDiv(scrollTop, docHeight))

getScrollProgress(winHeight, docHeight, yOffset) ==
    LET scrollTop == IF yOffset # 0 THEN yOffset ELSE yOffset
        trackLength == docHeight - winHeight
    IN  JsMinOne(JsDiv(scrollTop, trackLength))

(* progressBar.update, script.js:104-107: the number whose decimal form,
   followed by '%', is assigned to style.width. *)
update(winHeight, docHeight, yOffset) ==
    JsTimes100(getScrollProgress(winHeight, docHeight, yOffset))

----------------------------------------------------------------------------
(* Smooth scroll.  Numbers are exact fractions. *)

FracLess(x, y) == x.num * y.den < y.num * x.den

(* utils.easeInOutCubic, script.js:59-61, for a finite t (x is its value):
   (t - 1) * (2t - 2) * (2t - 2) + 1 is 4 * (t - 1)^3 + 1. *)
easeInOutCubic(t) ==
    CHOOSE r \in
        {IF FracLess(x, Frac(1, 2))
         THEN Frac(4 * x.num * x.num * x.num, x.den * x.den * x.den)
         ELSE Frac(4 * (x.num - x.den) * (x.num - x.den) * (x.num - x.den)
                       + x.den * x.den * x.den,
                   x.den * x.den * x.den) : x \in {t}} : TRUE

(* The closure of one smoothScrollTo call, script.js:75-78, as the pending
   frame callback: started is startTime !== null, and age the time since
   startTime. *)
Anim(startPosition, distance, duration) ==
    [start |-> startPosition, distance |-> distance, duration |-> duration,
     started |-> FALSE, age |-> 0]

(* animation requesting the next frame while timeElapsed <= duration *)
animation_oneFrameMore(a) ==
    LET a1 == IF ~a.started THEN [a EXCEPT !.started = TRUE, !.age = 0] ELSE a
        timeElapsed == a1.age
    IN  CHOOSE r \in
            {[anim |-> a1,
              elapsed |-> timeElapsed,
              ease |-> eased,
              pos |-> Frac(a1.start * eased.den + eased.num * a1.distance, eased.den),
              again |-> timeElapsed <= a1.duration] :
                 eased \in {easeInOutCubic(JsDiv(timeElapsed, a1.duration))}} : TRUE

(* animation, script.js:80-90, for the callback a at a frame: the closure
   after it, timeElapsed, the value eased of easeInOutCubic, the position
   startPosition + eased * distance passed to window.scrollTo, and whether
   it requested another frame. *)
animation(a) ==
    LET a1 == IF ~a.started THEN [a EXCEPT !.started = TRUE, !.age = 0] ELSE a
        timeElapsed == a1.age
    IN  CHOOSE r \in
            {[anim |-> a1,
              elapsed |-> timeElapsed,
              ease |-> eased,
              pos |-> Frac(a1.start * eased.den + eased.num * a1.distance, eased.den),
              again |-> timeElapsed < a1.duration] :
                 eased \in {easeInOutCubic(JsDiv(timeElapsed, a1.duration))}} : TRUE

(* The smooth-scroll state as a record, for the listeners below. *)
ScrollState == [hash |-> hash, anims |-> anims, scrolls |-> scrolls]

ScrollCount(sc) == IF sc.scrolls = <<>> THEN 0 ELSE sc.scrolls[1].count

(* How many of them link clicks started. *)
LinkScrolls(sc) == IF sc.scrolls = <<>> THEN 0 ELSE sc.scrolls[1].links

(* utils.smoothScrollTo, script.js:71-92, up to its requestAnimationFrame;
   target is the id the selector names and yOffset is window.pageYOffset.
   getBoundingClientRect().top + window.pageYOffset is the element's top
   edge in the document.  scrolls notes the call: its target position,
   whether a frame callback was pending, and how many calls came before. *)
smoothScrollTo(sc, target, duration, yOffset) ==
    IF target \notin sections THEN sc
    ELSE LET targetPosition == sectionTop[target] - ScrollMargin
             startPosition == yOffset
             distance == targetPosition - startPosition
         IN  [sc EXCEPT !.anims = Append(@, Anim(startPosition, distance, duration)),
                        !.scrolls = <<[target |-> targetPosition,
                                       overlap |-> sc.anims # <<>>,
                                       count |-> ScrollCount(sc) + 1,
                                       links |-> LinkScrolls(sc)]>>]

(* A nav link's second click listener, script.js:192-199: the smooth
   scroll, then history.pushState puts the link's href into the URL. *)
linkScrollListener(sc, l, yOffset) ==
    IF l \in sections
    THEN [smoothScrollTo(sc, l, DefaultDuration, yOffset) EXCEPT
              !.scrolls[1].links = @ + 1, !.hash = l]
    ELSE [smoothScrollTo(sc, l, DefaultDuration, yOffset) EXCEPT !.hash = l]

(* The timer callback of setupScrollSpy, script.js:206-212. *)
hashTimeout(sc, yOffset) ==
    IF sc.hash \in sections
    THEN smoothScrollTo(sc, sc.hash, HashDuration, yOffset)
    ELSE sc

----------------------------------------------------------------------------
(* Timers: setTimeout callbacks not yet run, oldest first.  remaining is
   the time left until the callback is due. *)

Timer(kind, delay, data) == [kind |-> kind, remaining |-> delay, data |-> data]

NoData == <<>>

MinRemaining(ts) ==
    CHOOSE r \in {ts[i].remaining : i \in DOMAIN ts} :
        \A i \in DOMAIN ts : r <= ts[i].remaining

RemoveAt(ts, i) == SubSeq(ts, 1, i - 1) \o SubSeq(ts, i + 1, Len(ts))
----------------------------------------------------------------------------
(* Navigation: the mobile menu.  The listeners are written as functions of
   a record n of the menu state, so that one event can run several of them
   in a row; n.thrown collects the listeners that threw. *)

NavState ==
    [isNavOpen |-> isNavOpen, toggleActive |-> toggleActive,
     navLinksActive |-> navLinksActive, bodyOverflow |-> bodyOverflow,
     thrown |-> {}]

(* closeMobileNav without its last line: the scroll lock stays. *)
closeMobileNav_keepsLock(n, who) ==
    IF "mobileToggle" \notin present
    THEN [n EXCEPT !.isNavOpen = FALSE, !.thrown = @ \cup {who}]
    ELSE IF "navLinks" \notin present
    THEN [n EXCEPT !.isNavOpen = FALSE, !.toggleActive = FALSE,
                   !.thrown = @ \cup {who}]
    ELSE [n EXCEPT !.isNavOpen = FALSE, !.toggleActive = FALSE,
                   !.navLinksActive = FALSE]

(* closeMobileNav with classList.toggle('active') in place of
   classList.remove('active'). *)
closeMobileNav_toggles(n, who) ==
    IF "mobileToggle" \notin present
    THEN [n EXCEPT !.isNavOpen = FALSE, !.thrown = @ \cup {who}]
    ELSE IF "navLinks" \notin present
    THEN [n EXCEPT !.isNavOpen = FALSE, !.toggleActive = ~@,
                   !.thrown = @ \cup {who}]
    ELSE [n EXCEPT !.isNavOpen = FALSE, !.toggleActive = ~@,
                   !.navLinksActive = ~@, !.bodyOverflow = ""]

(* navigation.closeMobileNav, script.js:183-188.  who is the listener that
   called it.  A missing element makes the property access on null throw,
   after the assignments made before it. *)
closeMobileNav(n, who) ==
    IF "mobileToggle" \notin present
    THEN [n EXCEPT !.isNavOpen = FALSE, !.thrown = @ \cup {who}]
    ELSE IF "navLinks" \notin present
    THEN [n EXCEPT !.isNavOpen = FALSE, !.toggleActive = FALSE,
                   !.thrown = @ \cup {who}]
    ELSE [n EXCEPT !.isNavOpen = FALSE, !.toggleActive = FALSE,
                   !.navLinksActive = FALSE, !.bodyOverflow = ""]

(* The toggle listener with classList.toggle('active') on the nav-links
   container given no force argument. *)
toggleListener_noForce(n) ==
    LET open == ~n.isNavOpen IN
    IF "navLinks" \notin present
    THEN [n EXCEPT !.isNavOpen = open, !.toggleActive = open,
                   !.thrown = @ \cup {"toggleClick"}]
    ELSE [n EXCEPT !.isNavOpen = open, !.toggleActive = open,
                   !.navLinksActive = TRUE,
                   !.bodyOverflow = IF open THEN "hidden" ELSE ""]

(* The toggle button's click listener, script.js:157-164. *)
toggleListener(n) ==
    LET open == ~n.isNavOpen IN
    IF "navLinks" \notin present
    THEN [n EXCEPT !.isNavOpen = open, !.toggleActive = open,
                   !.thrown = @ \cup {"toggleClick"}]
    ELSE [n EXCEPT !.isNavOpen = open, !.toggleActive = open,
                   !.navLinksActive = open,
                   !.bodyOverflow = IF open THEN "hidden" ELSE ""]

(* A nav link's first click listener, script.js:168-172. *)
linkCloseListener(n, width) ==
    IF width <= MobileBreakpoint THEN closeMobileNav(n, "linkClose") ELSE n

(* The document's click listener, script.js:176-180.  inNavbar is
   elements.navbar.contains(e.target); with the navbar missing the call is
   made on null, and only when isNavOpen lets the && reach it. *)
docClickListener(n, inNavbar) ==
    IF ~n.isNavOpen THEN n
    ELSE IF "navbar" \notin present THEN [n EXCEPT !.thrown = @ \cup {"docClick"}]
    ELSE IF ~inNavbar THEN closeMobileNav(n, "docClick")
    ELSE n

(* The keydown listener of accessibility.setupKeyboardNavigation,
   script.js:373-377, for e.key = 'Escape'. *)
escapeListener(n) ==
    IF n.isNavOpen THEN closeMobileNav(n, "keydownEscape") ELSE n

(* The state after a listener ran, when init() registered it under name h;
   otherwise the state before. *)
IfRegistered(h, after, before) == IF h \in handlers THEN after ELSE before

----------------------------------------------------------------------------
(* Navigation: the scroll spy.  s is a record of currentSection, the
   links' 'active' classes and the call history. *)

SpyState ==
    [currentSection |-> currentSection, linkActive |-> linkActive,
     calls |-> calls, everPassed |-> everPassed]

PushCall(cs, c) == IF Len(cs) < 2 THEN Append(cs, c) ELSE <<cs[2], c>>

(* setActiveLink without the early return of line 145. *)
setActiveLink_noGuard(s, sectionId) ==
    [currentSection |-> sectionId,
     linkActive |-> [l \in Links |-> dataSection[l] = sectionId],
     calls |-> PushCall(s.calls, [id |-> sectionId,
                                  before |-> s.currentSection,
                                  pass |-> TRUE]),
     everPassed |-> TRUE]

(* setActiveLink with classList.add in place of classList.toggle(.., isActive):
   a link once active stays active. *)
setActiveLink_addOnly(s, sectionId) ==
    IF s.currentSection = sectionId
    THEN [s EXCEPT !.calls = PushCall(@, [id |-> sectionId,
                                         before |-> s.currentSection,
                                         pass |-> FALSE])]
    ELSE [currentSection |-> sectionId,
          linkActive |-> [l \in Links |->
                             s.linkActive[l] \/ dataSection[l] = sectionId],
          calls |-> PushCall(s.calls, [id |-> sectionId,
                                       before |-> s.currentSection,
                                       pass |-> TRUE]),
          everPassed |-> TRUE]

(* navigation.setActiveLink, script.js:144-152.  pass records whether the
   call ran the forEach over the links. *)
setActiveLink(s, sectionId) ==
    IF s.currentSection = sectionId
    THEN [s EXCEPT !.calls = PushCall(@, [id |-> sectionId,
                                         before |-> s.currentSection,
                                         pass |-> FALSE])]
    ELSE [currentSection |-> sectionId,
          linkActive |-> [l \in Links |-> dataSection[l] = sectionId],
          calls |-> PushCall(s.calls, [id |-> sectionId,
                                       before |-> s.currentSection,
                                       pass |-> TRUE]),
          everPassed |-> TRUE]

(* The IntersectionObserver callback of setupActiveState, script.js:129-135:
   entries.forEach in order.  An entry is <<section id, isIntersecting>>. *)
RECURSIVE spyCallback(_, _)
spyCallback(s, entries) ==
    IF entries = <<>> THEN s
    ELSE LET e == Head(entries)
             s1 == IF e[2] THEN setActiveLink(s, e[1]) ELSE s
         IN  spyCallback(s1, Tail(entries))
----------------------------------------------------------------------------
(* Contact form.  A string is a sequence of one-character strings. *)

Whitespace == {" "}

(* String.prototype.trim: drops the whitespace at both ends. *)
RECURSIVE trimStart(_)
trimStart(s) ==
    IF s # <<>> /\ Head(s) \in Whitespace THEN trimStart(Tail(s)) ELSE s

RECURSIVE trimEnd(_)
trimEnd(s) ==
    IF s # <<>> /\ s[Len(s)] \in Whitespace
    THEN trimEnd(SubSeq(s, 1, Len(s) - 1)) ELSE s

trim(s) == trimEnd(trimStart(s))

(* [^\s@]+ matches s[a..b]: at least one character, none of them
   whitespace or '@'. *)
MatchesClass(s, a, b) ==
    /\ a <= b
    /\ \A k \in a..b : s[k] \notin Whitespace \cup {"@"}

(* contactForm.isValidEmail, script.js:281-284: the regular expression
   /^[^\s@]+@[^\s@]+\.[^\s@]+$/ matches the whole string when some '@' at i
   and some '.' at j split it into three non-empty runs of [^\s@]. *)
isValidEmail(email) ==
    \E i, j \in 1..Len(email) :
        /\ i < j
        /\ email[i] = "@"
        /\ email[j] = "."
        /\ MatchesClass(email, 1, i - 1)
        /\ MatchesClass(email, i + 1, j - 1)
        /\ MatchesClass(email, j + 1, Len(email))

NoText == [kind |-> "none", name |-> <<>>, email |-> <<>>]
ErrorText(rule) == [kind |-> rule, name |-> <<>>, email |-> <<>>]
SuccessText(name, email) == [kind |-> "success", name |-> name, email |-> email]

OriginalLabel == "Send Message"
LoadingLabel == "Sending..."

FormState ==
    [fields |-> fields, submitDisabled |-> submitDisabled,
     submitLabel |-> submitLabel, statusText |-> statusText,
     statusClass |-> statusClass, timers |-> timers, shown |-> 0, thrown |-> {}]

(* contactForm.showStatus, script.js:308-318. *)
showStatus(f, message, type) ==
    IF "formStatus" \notin present THEN f
    ELSE [f EXCEPT !.statusText = message,
                   !.statusClass = type,
                   !.timers = Append(@, Timer("hide", StatusHideDelay, NoData)),
                   !.shown = @ + 1]

(* validateForm with the e-mail rule tested before the name rule. *)
validateForm_emailFirst(f, data) ==
    IF ~isValidEmail(data.email)
    THEN [ok |-> FALSE, f |-> showStatus(f, ErrorText("email"), "error")]
    ELSE IF trim(data.name) = <<>>
    THEN [ok |-> FALSE, f |-> showStatus(f, ErrorText("name"), "error")]
    ELSE IF trim(data.message) = <<>>
    THEN [ok |-> FALSE, f |-> showStatus(f, ErrorText("message"), "error")]
    ELSE [ok |-> TRUE, f |-> f]

(* contactForm.validateForm, script.js:260-279: whether the data passed,
   and the form state after the status message of the first failing rule. *)
validateForm(f, data) ==
    IF trim(data.name) = <<>>
    THEN [ok |-> FALSE, f |-> showStatus(f, ErrorText("name"), "error")]
    ELSE IF ~isValidEmail(data.email)
    THEN [ok |-> FALSE, f |-> showStatus(f, ErrorText("email"), "error")]
    ELSE IF trim(data.message) = <<>>
    THEN [ok |-> FALSE, f |-> showStatus(f, ErrorText("message"), "error")]
    ELSE [ok |-> TRUE, f |-> f]

(* contactForm.simulateSubmission, script.js:286-306, up to the setTimeout.
   querySelector('button[type="submit"]') yields null when the control is
   missing, and reading textContent of null throws. *)
simulateSubmission(f, data) ==
    IF "submitButton" \notin present
    THEN [f EXCEPT !.thrown = @ \cup {"submit"}]
    ELSE [f EXCEPT !.submitLabel = LoadingLabel,
                   !.submitDisabled = TRUE,
                   !.timers = Append(@, Timer("submit", SubmitDelay,
                                  <<data.name, data.email, f.submitLabel>>))]

(* contactForm.handleSubmit, script.js:247-258. *)
handleSubmit(f) ==
    LET data == f.fields
        v == validateForm(f, data)
    IN  IF ~v.ok THEN v.f ELSE simulateSubmission(v.f, data)

EmptyFields == [name |-> <<>>, email |-> <<>>, message |-> <<>>]

(* The submission's timer callback reading the form again instead of the
   data it captured. *)
submitTimeout_readsForm(f, data) ==
    LET g == showStatus(f, SuccessText(f.fields.name, f.fields.email), "success")
    IN  [g EXCEPT !.fields = EmptyFields,
                  !.submitLabel = data[3],
                  !.submitDisabled = FALSE]

(* The timer callback of simulateSubmission, script.js:295-305; data is
   what the closure captured: data.name, data.email, originalText. *)
submitTimeout(f, data) ==
    LET g == showStatus(f, SuccessText(data[1], data[2]), "success")
    IN  [g EXCEPT !.fields = EmptyFields,
                  !.submitLabel = data[3],
                  !.submitDisabled = FALSE]

(* The timer callback of showStatus, script.js:315-317. *)
hideTimeout(f) == [f EXCEPT !.statusClass = ""]
----------------------------------------------------------------------------
(* Reveal animations.  The reveal elements are numbered 1..revealCount in
   the order of elements.revealElements.  r is a record of the observer's
   targets, the timers and the count of show timers started per element; an
   entry is <<element, isIntersecting>>. *)

RevealState ==
    [observed |-> observed, shown |-> shown, timers |-> timers,
     scheduled |-> scheduled]

(* The reveal timer's data: the element, and the delay it was started with. *)
ShowTimer(el, delay) == Timer("show", delay, <<el, delay>>)

(* The callback's body for one entry, script.js:224-229; index is the
   entry's position in the entries array, from 0. *)
revealEntry(r, entry, index) ==
    IF entry[2]
    THEN [r EXCEPT !.timers = Append(@, ShowTimer(entry[1], index * RevealStagger)),
                   !.scheduled[entry[1]] = @ + 1,
                   !.observed = @ \ {entry[1]}]
    ELSE r

RECURSIVE revealEntries(_, _, _)
revealEntries(r, entries, index) ==
    IF index >= Len(entries) THEN r
    ELSE revealEntries(revealEntry(r, entries[index + 1], index), entries, index + 1)

(* The callback written to follow the viewport: 'show' is set while the
   element intersects and removed when it leaves, and the element stays
   observed. *)
revealCallback_followsViewport(r, entries) ==
    [r EXCEPT !.shown = (@ \cup {entries[i][1] : i \in {j \in DOMAIN entries : entries[j][2]}})
                            \ {entries[i][1] : i \in {j \in DOMAIN entries : ~entries[j][2]}}]

(* The callback without observer.unobserve(entry.target). *)
revealCallback_keepsObserving(r, entries) ==
    [revealEntries(r, entries, 0) EXCEPT !.observed = r.observed]

(* The IntersectionObserver callback of revealAnimations.init,
   script.js:222-230: entries.forEach((entry, index) => ..). *)
revealCallback(r, entries) == revealEntries(r, entries, 0)

(* The reveal timer's callback, script.js:225-227: classList.add('show'). *)
showTimeout(r, el) == [r EXCEPT !.shown = @ \cup {el}]

----------------------------------------------------------------------------
(* Startup: init(), script.js:433-453.  Each module's init is the set of
   listeners it registers; navigation.init is the one that can throw, and
   the throw leaves the try block, so nothing after it runs. *)

(* progressBar.init, script.js:97-102 *)
progressBarInit ==
    IF "progress" \in present THEN {"scroll", "load"} ELSE {}

(* navigation.setupActiveState, script.js:119-142: querySelector(href)
   throws on an href that is no valid selector, href.replace on a missing
   href, and new IntersectionObserver where the constructor is undefined. *)
setupActiveStateThrows == ~hrefOk \/ ~hasIO

(* navigation.setupMobileToggle, script.js:154-181 *)
setupMobileToggle ==
    IF "mobileToggle" \in present
    THEN {"toggleClick", "linkClose", "docClick"} ELSE {}

(* navigation.init, script.js:112-117 *)
navigationInit ==
    IF setupActiveStateThrows THEN {}
    ELSE {"spyObserver"} \cup setupMobileToggle \cup {"linkScroll"}

(* navigation.setupScrollSpy, script.js:203-214: with a fragment in the
   URL, the timers it starts. *)
setupScrollSpy ==
    IF hash # "" THEN <<Timer("hashScroll", HashScrollDelay, NoData)>> ELSE <<>>

(* revealAnimations.init, script.js:219-237 *)
revealInit == IF revealCount = 0 THEN {} ELSE {"revealObserver"}

(* contactForm.init, script.js:242-245 *)
contactFormInit ==
    IF "contactForm" \in present THEN {"submit"} ELSE {}

(* performance.init, script.js:323-345: the observer is feature-detected *)
performanceInit == IF hasIO THEN {"imageObserver"} ELSE {}

(* accessibility.init, script.js:365-391 *)
accessibilityInit == {"keydownEscape", "keydownTab", "mousedown"}

(* errorHandler.init, script.js:415-418 *)
errorHandlerInit == {"error", "unhandledrejection"}

(* The listeners registered when init() returns, script.js:441-447. *)
initHandlers ==
    progressBarInit \cup
    IF setupActiveStateThrows THEN {}
    ELSE navigationInit \cup revealInit \cup contactFormInit \cup performanceInit
         \cup accessibilityInit \cup errorHandlerInit

----------------------------------------------------------------------------
(* History *)

MenuSnapshot ==
    [isNavOpen |-> isNavOpen, toggleActive |-> toggleActive,
     navLinksActive |-> navLinksActive, bodyOverflow |-> bodyOverflow]

Event(ev, arg, out) == [ev |-> ev, arg |-> arg, pre |-> MenuSnapshot, out |-> out]

(* hist keeps the last event whole and, before it, the event that preceded
   it without its argument. *)
Log(ev, arg, out) ==
    /\ budget # 0
    /\ budget' = IF budget > 0 THEN budget - 1 ELSE budget
    /\ hist' = IF hist = <<>> THEN <<Event(ev, arg, out)>>
               ELSE <<[hist[Len(hist)] EXCEPT !.arg = <<>>, !.out = 0],
                      Event(ev, arg, out)>>

Last == hist[Len(hist)]

ApplyNav(n) ==
    /\ isNavOpen' = n.isNavOpen
    /\ toggleActive' = n.toggleActive
    /\ navLinksActive' = n.navLinksActive
    /\ bodyOverflow' = n.bodyOverflow
    /\ thrown' = n.thrown

ApplySpy(s) ==
    /\ currentSection' = s.currentSection
    /\ linkActive' = s.linkActive
    /\ calls' = s.calls
    /\ everPassed' = s.everPassed

ApplyForm(f) ==
    /\ fields' = f.fields
    /\ submitDisabled' = f.submitDisabled
    /\ submitLabel' = f.submitLabel
    /\ statusText' = f.statusText
    /\ statusClass' = f.statusClass
    /\ timers' = f.timers
    /\ thrown' = f.thrown

----------------------------------------------------------------------------
(* Actions *)

(* The script runs: init(), script.js:433-460. *)
Startup ==
    /\ ~started
    /\ started' = TRUE
    /\ handlers' = initHandlers
    /\ initError' = setupActiveStateThrows
    /\ IF "progress" \in present
       THEN /\ barWidth' = update(innerHeight, scrollHeight, pageYOffset)
            /\ lastUpdate' = <<innerHeight, scrollHeight, pageYOffset>>
       ELSE UNCHANGED <<barWidth, lastUpdate>>
    /\ timers' = IF setupActiveStateThrows THEN timers ELSE timers \o setupScrollSpy
    /\ observed' = IF "revealObserver" \in initHandlers THEN 1..revealCount ELSE {}
    /\ thrown' = {}
    /\ Log("init", <<>>, 0)
    /\ UNCHANGED <<envVars, shown, scheduled, animVars, navVars, spyVars, innerWidth,
                   formVars, innerHeight, scrollHeight, pageYOffset, inThrottle, loaded>>

(* A click on the menu button: its listener, then the document's. *)
ToggleClick ==
    /\ started
    /\ "mobileToggle" \in present
    /\ LET n1 == IfRegistered("toggleClick", toggleListener(NavState), NavState)
           n2 == IfRegistered("docClick",
                     docClickListener(n1, toggleInNavbar), n1)
       IN  ApplyNav(n2)
    /\ Log("toggle", <<>>, 0)
    /\ UNCHANGED <<envVars, revealVars, animVars, startVars, spyVars, innerWidth, progVars, formVars, timers>>

MaxScrolls == 1

ApplyScroll(sc) ==
    /\ hash' = sc.hash
    /\ anims' = sc.anims
    /\ scrolls' = sc.scrolls

(* A click on nav link l: the link's listeners, then the document's.  The
   runs followed start at most MaxScrolls smooth scrolls by link clicks. *)
LinkClick(l) ==
    /\ started
    /\ "linkScroll" \in handlers /\ l \in sections => LinkScrolls(ScrollState) < MaxScrolls
    /\ LET n1 == IfRegistered("linkClose",
                     linkCloseListener(NavState, innerWidth), NavState)
           n2 == IfRegistered("docClick",
                     docClickListener(n1, linksInNavbar), n1)
       IN  ApplyNav(n2)
    /\ ApplyScroll(IfRegistered("linkScroll",
                       linkScrollListener(ScrollState, l, pageYOffset), ScrollState))
    /\ Log("link", <<l>>, 0)
    /\ UNCHANGED <<envVars, revealVars, frameGap, writes, startVars, spyVars, innerWidth,
                   progVars, formVars, timers>>

(* A click inside the navbar that hits neither the button nor a link. *)
NavbarClick ==
    /\ started
    /\ "navbar" \in present
    /\ ApplyNav(IfRegistered("docClick",
                    docClickListener(NavState, TRUE), NavState))
    /\ Log("navbar", <<>>, 0)
    /\ UNCHANGED <<envVars, revealVars, animVars, startVars, spyVars, innerWidth, progVars, formVars, timers>>

(* A click on anything outside the navbar (not the button, not a link). *)
OutsideClick ==
    /\ started
    /\ ApplyNav(IfRegistered("docClick",
                    docClickListener(NavState, FALSE), NavState))
    /\ Log("outside", <<>>, 0)
    /\ UNCHANGED <<envVars, revealVars, animVars, startVars, spyVars, innerWidth, progVars, formVars, timers>>

(* The Escape key. *)
KeyEscape ==
    /\ started
    /\ ApplyNav(IfRegistered("keydownEscape", escapeListener(NavState), NavState))
    /\ Log("escape", <<>>, 0)
    /\ UNCHANGED <<envVars, revealVars, animVars, startVars, spyVars, innerWidth, progVars, formVars, timers>>

(* The window is resized to width w; the script listens to no resize. *)
ResizeWidth(w) ==
    /\ w # innerWidth
    /\ innerWidth' = w
    /\ thrown' = {}
    /\ Log("resize", <<>>, 0)
    /\ UNCHANGED <<envVars, revealVars, animVars, startVars, navVars, spyVars, progVars, formVars, timers>>

(* The scroll spy's observer delivers entries. *)
Intersect(entries) ==
    /\ "spyObserver" \in handlers
    /\ ApplySpy(spyCallback(SpyState, entries))
    /\ thrown' = {}
    /\ Log("intersect", entries, 0)
    /\ UNCHANGED <<envVars, revealVars, animVars, startVars, navVars, innerWidth, progVars, formVars, timers>>
(* The progress bar's state as a record, for the wrappers below. *)
ProgState ==
    [barWidth |-> barWidth, inThrottle |-> inThrottle, timers |-> timers,
     lastUpdate |-> lastUpdate]

(* A call of progressBar.update with the page at the given geometry. *)
runUpdate(p, winHeight, docHeight, yOffset) ==
    [p EXCEPT !.barWidth = update(winHeight, docHeight, yOffset),
              !.lastUpdate = <<winHeight, docHeight, yOffset>>]

(* The function utils.throttle returns, script.js:48-56, wrapped around
   progressBar.update with limit config.debounceDelay (script.js:100). *)
throttledUpdate(p, winHeight, docHeight, yOffset) ==
    IF ~p.inThrottle
    THEN [runUpdate(p, winHeight, docHeight, yOffset) EXCEPT
              !.inThrottle = TRUE,
              !.timers = Append(@, Timer("throttle", ThrottleLimit, NoData))]
    ELSE p

ApplyProg(p) ==
    /\ barWidth' = p.barWidth
    /\ inThrottle' = p.inThrottle
    /\ timers' = p.timers
    /\ lastUpdate' = p.lastUpdate

(* The scroll offsets the browser allows: 0 .. scrollHeight - innerHeight. *)
MaxScroll(winHeight, docHeight) == docHeight - winHeight

ClampOffset(y, winHeight, docHeight) ==
    IF y < 0 THEN 0
    ELSE IF y > MaxScroll(winHeight, docHeight) THEN MaxScroll(winHeight, docHeight)
    ELSE y

(* The page is scrolled to offset y: a scroll event. *)
Scroll(y) ==
    /\ started
    /\ y # pageYOffset
    /\ pageYOffset' = y
    /\ ApplyProg(IF "scroll" \in handlers
                 THEN throttledUpdate(ProgState, innerHeight, scrollHeight, y)
                 ELSE ProgState)
    /\ thrown' = {}
    /\ Log("scroll", <<>>, 0)
    /\ UNCHANGED <<envVars, revealVars, animVars, startVars, navVars, spyVars, innerWidth, formVars,
                   innerHeight, scrollHeight, loaded>>

(* The window's load event, script.js:101. *)
Load ==
    /\ started
    /\ ~loaded
    /\ loaded' = TRUE
    /\ ApplyProg(IF "load" \in handlers
                 THEN runUpdate(ProgState, innerHeight, scrollHeight, pageYOffset)
                 ELSE ProgState)
    /\ thrown' = {}
    /\ Log("load", <<>>, 0)
    /\ UNCHANGED <<envVars, revealVars, animVars, startVars, navVars, spyVars, innerWidth, formVars,
                   innerHeight, scrollHeight, pageYOffset>>

(* The viewport or the document changes height.  The browser keeps the
   scroll offset within the new range, and moving it is a scroll event. *)
Relayout(winHeight, docHeight) ==
    /\ started
    /\ <<winHeight, docHeight>> # <<innerHeight, scrollHeight>>
    /\ innerHeight' = winHeight
    /\ scrollHeight' = docHeight
    /\ LET y == ClampOffset(pageYOffset, winHeight, docHeight) IN
       /\ pageYOffset' = y
       /\ ApplyProg(IF y # pageYOffset /\ "scroll" \in handlers
                    THEN throttledUpdate(ProgState, winHeight, docHeight, y)
                    ELSE ProgState)
    /\ thrown' = {}
    /\ Log("relayout", <<>>, 0)
    /\ UNCHANGED <<envVars, revealVars, animVars, startVars, navVars, spyVars, innerWidth, formVars, loaded>>

(* Time passes by d, no more than the nearest timer allows; the frame that
   ends an animation comes before more time passes. *)
Tick(d) ==
    /\ timers # <<>> \/ anims # <<>>
    /\ d > 0
    /\ timers # <<>> => d <= MinRemaining(timers)
    /\ \A i \in DOMAIN anims : anims[i].started => anims[i].age < anims[i].duration
    /\ timers' = [i \in DOMAIN timers |->
                     [timers[i] EXCEPT !.remaining = @ - d]]
    /\ anims' = [i \in DOMAIN anims |->
                    IF anims[i].started THEN [anims[i] EXCEPT !.age = @ + d]
                    ELSE anims[i]]
    /\ frameGap' = TRUE
    /\ UNCHANGED <<envVars, revealVars, hash, scrolls, writes, startVars, navVars, spyVars,
                   innerWidth, formVars,
                   innerHeight, scrollHeight, pageYOffset, barWidth, inThrottle,
                   loaded, lastUpdate, thrown, hist, budget>>

(* Timer i may run: it is due, and so is no older timer of its kind. *)
Due(i, kind) ==
    /\ i \in DOMAIN timers
    /\ timers[i].kind = kind
    /\ timers[i].remaining = 0
    /\ \A j \in 1..(i - 1) : timers[j].kind # kind

(* The throttle's timer, script.js:54. *)
ThrottleTimeout ==
    \E i \in DOMAIN timers :
        /\ Due(i, "throttle")
        /\ inThrottle' = FALSE
        /\ timers' = RemoveAt(timers, i)
        /\ thrown' = {}
        /\ Log("throttleTimeout", <<>>, 0)
        /\ UNCHANGED <<envVars, revealVars, animVars, startVars, navVars, spyVars, innerWidth, formVars,
                       innerHeight, scrollHeight, pageYOffset, barWidth, loaded,
                       lastUpdate>>

(* The user edits the form: its fields now hold d. *)
TypeFields(d) ==
    /\ started
    /\ "contactForm" \in present
    /\ d # fields
    /\ fields' = d
    /\ thrown' = {}
    /\ Log("type", <<>>, 0)
    /\ UNCHANGED <<envVars, revealVars, animVars, startVars, navVars, spyVars, innerWidth, progVars,
                   submitDisabled, submitLabel, statusText, statusClass,
                   submitted, timers>>

MaxTimers == 2

(* The form is submitted: the submit event, script.js:244.  A disabled
   submit control cannot be activated and blocks implicit submission, so
   the event needs the control enabled. *)
Submit ==
    /\ started
    /\ "contactForm" \in present
    /\ "submitButton" \in present => ~submitDisabled
    /\ Len(timers) < MaxTimers
    /\ LET f == IfRegistered("submit", handleSubmit(FormState), FormState) IN
       /\ ApplyForm(f)
       /\ Log("submit", <<>>, f.shown)
    /\ submitted' = <<fields.name, fields.email, fields.message>>
    /\ UNCHANGED <<envVars, revealVars, animVars, startVars, navVars, spyVars, innerWidth, progVars>>

(* The timer of simulateSubmission runs, script.js:295-305. *)
SubmitTimeout ==
    \E i \in DOMAIN timers :
        /\ Due(i, "submit")
        /\ LET f == submitTimeout([FormState EXCEPT !.timers = RemoveAt(timers, i)],
                                  timers[i].data)
           IN  /\ ApplyForm(f)
               /\ Log("submitTimeout", <<>>, f.shown)
        /\ UNCHANGED <<envVars, revealVars, animVars, startVars, navVars, spyVars, innerWidth, progVars,
                       submitted>>

(* A timer of showStatus runs, script.js:315-317. *)
HideTimeout ==
    \E i \in DOMAIN timers :
        /\ Due(i, "hide")
        /\ ApplyForm(hideTimeout([FormState EXCEPT !.timers = RemoveAt(timers, i)]))
        /\ Log("hideTimeout", <<>>, 0)
        /\ UNCHANGED <<envVars, revealVars, animVars, startVars, navVars, spyVars, innerWidth, progVars,
                       submitted>>

ApplyReveal(r) ==
    /\ observed' = r.observed
    /\ shown' = r.shown
    /\ timers' = r.timers
    /\ scheduled' = r.scheduled

(* The reveal observer delivers entries. *)
Reveal(entries) ==
    /\ "revealObserver" \in handlers
    /\ ApplyReveal(revealCallback(RevealState, entries))
    /\ thrown' = {}
    /\ Log("reveal", entries, 0)
    /\ UNCHANGED <<envVars, animVars, startVars, navVars, spyVars, innerWidth, progVars,
                   formVars>>

(* Timer i may run: it is due, and so is no older timer of its kind (the
   delays of one kind may differ). *)
DueInOrder(i, kind) ==
    /\ i \in DOMAIN timers
    /\ timers[i].kind = kind
    /\ timers[i].remaining = 0
    /\ \A j \in 1..(i - 1) : timers[j].kind = kind => timers[j].remaining > 0

(* A reveal timer runs, script.js:225-227. *)
ShowTimeout ==
    \E i \in DOMAIN timers :
        /\ DueInOrder(i, "show")
        /\ ApplyReveal(showTimeout([RevealState EXCEPT !.timers = RemoveAt(timers, i)],
                                   timers[i].data[1]))
        /\ thrown' = {}
        /\ Log("showTimeout", <<timers[i].data[1]>>, 0)
        /\ UNCHANGED <<envVars, animVars, startVars, navVars, spyVars, innerWidth,
                       progVars, formVars>>

(* The timer of setupScrollSpy runs, script.js:206-212. *)
HashTimeout ==
    \E i \in DOMAIN timers :
        /\ Due(i, "hashScroll")
        /\ ApplyScroll(hashTimeout(ScrollState, pageYOffset))
        /\ timers' = RemoveAt(timers, i)
        /\ thrown' = {}
        /\ Log("hashTimeout", <<>>, 0)
        /\ UNCHANGED <<envVars, revealVars, frameGap, writes, startVars, navVars, spyVars,
                       innerWidth, progVars, formVars>>

(* window.scrollTo(0, pos): the offset is kept within the scroll range and
   on a whole pixel, the one below or the one above pos. *)
ScrollToOffsets(pos, winHeight, docHeight) ==
    LET below == pos.num \div pos.den
        above == IF below * pos.den = pos.num THEN below ELSE below + 1
    IN  {ClampOffset(below, winHeight, docHeight),
         ClampOffset(above, winHeight, docHeight)}

(* What a frame leaves in writes for one callback. *)
Write(r) ==
    [pos |-> r.pos, ease |-> r.ease, elapsed |-> r.elapsed,
     start |-> r.anim.start, distance |-> r.anim.distance,
     duration |-> r.anim.duration, final |-> ~r.again]

(* An animation frame: every pending callback runs, in request order, and
   those that request a frame again are the pending ones of the next frame.
   The scroll events the moved offset leads to are events of their own. *)
Frame ==
    /\ started
    /\ anims # <<>>
    /\ frameGap
    /\ \E res \in {[i \in DOMAIN anims |-> animation(anims[i])]} :
           LET keep == SelectSeq(res, LAMBDA r : r.again)
           IN  /\ anims' = [i \in DOMAIN keep |-> keep[i].anim]
               /\ writes' = [i \in DOMAIN res |-> Write(res[i])]
               /\ pageYOffset' \in ScrollToOffsets(res[Len(res)].pos, innerHeight, scrollHeight)
    /\ frameGap' = FALSE
    /\ thrown' = {}
    /\ Log("frame", <<>>, 0)
    /\ UNCHANGED <<envVars, revealVars, hash, scrolls, startVars, navVars, spyVars,
                   innerWidth, formVars, timers,
                   innerHeight, scrollHeight, barWidth, inThrottle, loaded, lastUpdate>>

----------------------------------------------------------------------------
(* Initial states.  InitProgram is the script's own state when it is
   loaded (script.js:27-30 and the DOM as the page's markup leaves it);
   the page it runs on is chosen by each specification. *)

InitProgram ==
    /\ started = FALSE
    /\ handlers = {}
    /\ initError = FALSE
    /\ isNavOpen = FALSE
    /\ currentSection = "home"
    /\ toggleActive = FALSE
    /\ navLinksActive = FALSE
    /\ bodyOverflow = ""
    /\ barWidth = Unset
    /\ inThrottle = FALSE
    /\ loaded = FALSE
    /\ submitDisabled = FALSE
    /\ submitLabel = OriginalLabel
    /\ statusText = NoText
    /\ statusClass = ""
    /\ timers = <<>>
    /\ thrown = {}
    /\ hist = <<>>
    /\ calls = <<>>
    /\ everPassed = FALSE
    /\ lastUpdate = <<>>
    /\ submitted = <<>>
    /\ observed = {}
    /\ shown = {}
    /\ scheduled = [e \in 1..revealCount |-> 0]
    /\ anims = <<>>
    /\ frameGap = TRUE
    /\ scrolls = <<>>
    /\ writes = <<>>

Unlimited == budget = -1

(* Viewport widths on both sides of the breakpoint of script.js:169. *)
Widths == {MobileBreakpoint - 1, MobileBreakpoint, MobileBreakpoint + 1}

IdentityMap == [l \in Links |-> l]

(* A page with every expected element, whose links carry the data-section
   of the section they point to and of which 'home' is marked active. *)
PlainPage ==
    /\ present = Expected
    /\ hasIO = TRUE
    /\ hrefOk = TRUE
    /\ sections = Links
    /\ dataSection = IdentityMap
    /\ linkActive = [l \in Links |-> l = "home"]

(* Section tops for a document 1800 px high seen through a 600 px viewport. *)
PlainTops == [l \in Links |-> CASE l = "home" -> 0
                                [] l = "about" -> 680
                                [] l = "contact" -> 1280]

(* A page opened without a URL fragment and without .reveal elements. *)
PlainContent ==
    /\ revealCount = 0
    /\ hash = ""
    /\ sectionTop = PlainTops
    /\ framePeriod = DefaultDuration \div 4

PlainGeometry ==
    /\ innerHeight = 600
    /\ scrollHeight = 1800
    /\ pageYOffset = 0

(* ---- the mobile menu *)

(* The links point to the page's sections, or to ids the page lacks: a
   click on such a link starts no smooth scroll. *)
InitMenu ==
    /\ PlainContent
    /\ InitProgram
    /\ Unlimited
    /\ present = Expected
    /\ hasIO = TRUE
    /\ hrefOk = TRUE
    /\ sections \in {Links, {}}
    /\ dataSection = IdentityMap
    /\ linkActive = [l \in Links |-> l = "home"]
    /\ PlainGeometry
    /\ toggleInNavbar \in BOOLEAN
    /\ linksInNavbar \in BOOLEAN
    /\ innerWidth \in Widths
    /\ fields = EmptyFields

NextMenu ==
    \/ Startup
    \/ ToggleClick
    \/ \E l \in Links : LinkClick(l)
    \/ NavbarClick
    \/ OutsideClick
    \/ KeyEscape
    \/ \E w \in Widths : ResizeWidth(w)

SpecMenu == InitMenu /\ [][NextMenu]_vars

(* ---- the scroll spy *)

MaxEntries == 2

(* The entry lists a callback can receive: up to MaxEntries entries, each
   for an observed section. *)
RECURSIVE SeqsUpTo(_, _)
SeqsUpTo(S, n) ==
    IF n = 0 THEN {<<>>}
    ELSE LET shorter == SeqsUpTo(S, n - 1)
         IN  shorter \cup {Append(q, x) : q \in shorter, x \in S}

EntryLists == SeqsUpTo(sections \X BOOLEAN, MaxEntries) \ {<<>>}

(* data-section attributes: the matching ones, two links sharing one, a
   link without one, and two links with each other's. *)
DataMaps ==
    {IdentityMap,
     [IdentityMap EXCEPT !["about"] = "home"],
     [IdentityMap EXCEPT !["contact"] = "none"],
     [IdentityMap EXCEPT !["home"] = "about", !["about"] = "home"]}

InitSpy ==
    /\ PlainContent
    /\ InitProgram
    /\ Unlimited
    /\ present = Expected
    /\ hasIO = TRUE
    /\ hrefOk = TRUE
    /\ sections \in {Links, Links \ {"contact"}}
    /\ dataSection \in DataMaps
    /\ linkActive \in [Links -> BOOLEAN]
    /\ PlainGeometry
    /\ toggleInNavbar = TRUE
    /\ linksInNavbar = TRUE
    /\ innerWidth = MobileBreakpoint
    /\ fields = EmptyFields

NextSpy ==
    \/ Startup
    \/ \E es \in EntryLists : Intersect(es)

SpecSpy == InitSpy /\ [][NextSpy]_vars
----------------------------------------------------------------------------
(* Properties of the mobile menu *)

Closed ==
    /\ ~isNavOpen
    /\ ~toggleActive
    /\ ~navLinksActive
    /\ bodyOverflow = ""

LastIs(evs) == hist # <<>> /\ Last.ev \in evs

(* C1 as stated: right after a nav-link click, a click outside the navbar
   or an Escape press has been handled, whatever the viewport width, the
   menu is closed: isNavOpen is false, neither the button nor the nav-links
   container has class 'active', and the body's overflow is cleared. *)
C1_EveryTriggerCloses ==
    LastIs({"link", "outside", "escape"}) => Closed

(* C1 amended: an outside click and an Escape press close the menu at every
   width; a nav-link click closes it when the viewport is at most 768 px
   wide; on a wider viewport a click on a link inside the navbar leaves
   the menu exactly as it was. *)
C1_CloseTriggers ==
    /\ LastIs({"outside", "escape"}) => Closed
    /\ LastIs({"link"}) /\ innerWidth <= MobileBreakpoint => Closed
    /\ LastIs({"link"}) /\ innerWidth > MobileBreakpoint /\ linksInNavbar
           => MenuSnapshot = Last.pre

C1_Witness ==
    /\ LastIs({"link"})
    /\ Last.pre.isNavOpen
    /\ innerWidth <= MobileBreakpoint
    /\ Closed

(* C2: two toggle-button clicks in a row, the first one made with the menu
   closed, leave isNavOpen, both 'active' classes and the body's overflow
   as they were before the first click. *)
C2_ToggleRoundTrip ==
    (/\ Len(hist) = 2
     /\ hist[1].ev = "toggle"
     /\ hist[2].ev = "toggle"
     /\ ~hist[1].pre.isNavOpen)
    => MenuSnapshot = hist[1].pre

C2_Witness ==
    /\ Len(hist) = 2
    /\ hist[1].ev = "toggle"
    /\ hist[2].ev = "toggle"
    /\ ~hist[1].pre.isNavOpen
    /\ hist[2].pre.isNavOpen
    /\ hist[2].pre.bodyOverflow = "hidden"
    /\ Closed

(* The four menu values of the record n. *)
MenuOf(n) ==
    [isNavOpen |-> n.isNavOpen, toggleActive |-> n.toggleActive,
     navLinksActive |-> n.navLinksActive, bodyOverflow |-> n.bodyOverflow]

(* C14: closeMobileNav called with the menu closed changes none of
   isNavOpen, the two 'active' classes and the body's overflow: a nav-link
   click on a viewport at most 768 px wide made with the menu closed leaves
   the four as they were, and so does a direct call in any reachable state
   with isNavOpen false. *)
C14_CloseIdempotent ==
    /\ LastIs({"link"}) /\ innerWidth <= MobileBreakpoint /\ ~Last.pre.isNavOpen
           => MenuSnapshot = Last.pre
    /\ ~isNavOpen => MenuOf(closeMobileNav(NavState, "direct")) = MenuSnapshot

(* A link click closed the open menu, and the next link click called
   closeMobileNav on the closed menu. *)
C14_Witness ==
    /\ Len(hist) = 2
    /\ hist[1].ev = "link"
    /\ hist[1].pre.isNavOpen
    /\ hist[2].ev = "link"
    /\ ~hist[2].pre.isNavOpen
    /\ innerWidth <= MobileBreakpoint
    /\ "linkClose" \in handlers
    /\ Closed

(* C16: isNavOpen is true exactly when the toggle button has class
   'active', exactly when the nav-links container has it, exactly when the
   body's overflow is 'hidden'; and isNavOpen becomes true only in a click
   on the toggle button. *)
C16_MenuProjection ==
    /\ [](/\ isNavOpen <=> toggleActive
          /\ isNavOpen <=> navLinksActive
          /\ isNavOpen <=> (bodyOverflow = "hidden"))
    /\ [][~isNavOpen /\ isNavOpen' => LastIs({"toggle"})' /\ hist' # hist]_vars

----------------------------------------------------------------------------
(* Properties of the scroll spy *)

SameSectionTwice == Len(calls) = 2 /\ calls[1].id = calls[2].id

(* C3 as stated: of two consecutive setActiveLink(S) calls, the first one
   runs the update pass over the links and the second one does not, in
   every state, the one right after startup included. *)
C3_ExactlyOnePass ==
    SameSectionTwice => calls[1].pass /\ ~calls[2].pass

(* C3 amended: of two consecutive setActiveLink(S) calls the second one
   never runs the update pass, and the first one runs it exactly when S
   differs from currentSection before the call; so the two calls make at
   most one pass, and none when S is already current (as 'home' is right
   after startup). *)
C3_AtMostOnePass ==
    SameSectionTwice =>
        /\ ~calls[2].pass
        /\ calls[1].pass <=> (calls[1].before # calls[1].id)
        /\ calls[2].before = calls[1].id

C3_Witness ==
    /\ SameSectionTwice
    /\ calls[1].pass
    /\ ~calls[2].pass
    /\ calls[1].id = "about"

(* The ids of the entries that are intersecting, in order. *)
Reported(entries) ==
    [i \in 1..Len(SelectSeq(entries, LAMBDA e : e[2])) |->
        SelectSeq(entries, LAMBDA e : e[2])[i][1]]

AfterReport == LastIs({"intersect"}) /\ Reported(Last.arg) # <<>>

LastReported == Reported(Last.arg)[Len(Reported(Last.arg))]

(* C4 as stated: after a callback that reports section S as intersecting,
   the nav link pointing to S has class 'active' and no other link has it,
   on the first report after startup and for any initial classes too. *)
C4_ReportedLinkActive ==
    AfterReport => \A l \in Links : linkActive[l] <=> (l = LastReported)

(* C4 amended: after a callback whose last intersecting entry is S,
   currentSection is S; and unless every section reported since startup
   was 'home' (the initial currentSection, for which setActiveLink returns
   at once and the links keep the classes of the markup), exactly the
   links whose data-section attribute is S have class 'active'. *)
C4_ReportedSectionCurrent ==
    AfterReport =>
        /\ currentSection = LastReported
        /\ everPassed =>
               \A l \in Links : linkActive[l] <=> (dataSection[l] = LastReported)
        /\ ~everPassed => LastReported = "home"

C4_Witness ==
    /\ AfterReport
    /\ LastReported = "about"
    /\ dataSection = IdentityMap
    /\ linkActive = [l \in Links |-> l = "about"]
(* ---- the progress bar *)

ScrollStep == 100
MaxDocSteps == 5
(* Besides running up to the next timer, time may pass by half the
   display time of a status message. *)
TickStep == StatusHideDelay \div 2

Geometries ==
    {<<w * ScrollStep, d * ScrollStep>> : w \in {2, 3}, d \in 2..MaxDocSteps}
        \cap {g \in Int \X Int : g[1] <= g[2]}

(* Offsets in steps of ScrollStep, one step of overscroll at either end. *)
Offsets(winHeight, docHeight) ==
    {k * ScrollStep : k \in -1..(MaxDocSteps - 1)}
        \cap (-ScrollStep)..(MaxScroll(winHeight, docHeight) + ScrollStep)

NextDeadline == IF timers = <<>> THEN {} ELSE {MinRemaining(timers)}

TickChoices ==
    IF timers = <<>> THEN {}
    ELSE {MinRemaining(timers)} \cup {d \in {TickStep} : d < MinRemaining(timers)}

InitProgress ==
    /\ PlainContent
    /\ InitProgram
    /\ Unlimited
    /\ PlainPage
    /\ \E g \in Geometries :
          /\ innerHeight = g[1]
          /\ scrollHeight = g[2]
          /\ pageYOffset \in {y \in Offsets(g[1], g[2]) :
                                 y = ClampOffset(y, g[1], g[2])}
    /\ toggleInNavbar = TRUE
    /\ linksInNavbar = TRUE
    /\ innerWidth = MobileBreakpoint
    /\ fields = EmptyFields

NextProgress ==
    \/ Startup
    \/ \E y \in Offsets(innerHeight, scrollHeight) : Scroll(y)
    \/ Load
    \/ \E g \in Geometries : Relayout(g[1], g[2])
    \/ \E d \in TickChoices : Tick(d)
    \/ ThrottleTimeout

SpecProgress == InitProgress /\ [][NextProgress]_vars
----------------------------------------------------------------------------
(* Properties of the progress bar.  lastUpdate holds the viewport height,
   document height and scroll offset that the latest progressBar.update
   read; barWidth is the number it wrote. *)

Updated == lastUpdate # <<>>
UpdWin == lastUpdate[1]
UpdDoc == lastUpdate[2]
UpdOffset == lastUpdate[3]
UpdMax == MaxScroll(UpdWin, UpdDoc)

(* barWidth is the finite number 100 * s / m. *)
IsPercentOf(s, m) ==
    /\ barWidth.kind = "num"
    /\ barWidth.num * m = 100 * s * barWidth.den

(* C5 as stated: for every document and viewport height and every offset s
   in [0, maxScroll], the width written is 100 * clamp(s / maxScroll, 0, 1):
   0 at s = 0 and 100 at s = maxScroll. *)
C5_ProgressInRange ==
    Updated /\ 0 <= UpdOffset /\ UpdOffset <= UpdMax =>
        /\ barWidth.kind = "num"
        /\ UpdMax # 0 => IsPercentOf(UpdOffset, UpdMax)
        /\ UpdOffset = 0 => barWidth.num = 0
        /\ UpdOffset = UpdMax => barWidth.num = 100 * barWidth.den

(* C5 amended: the same for every geometry whose maxScroll is positive,
   that is, for a document taller than the viewport. *)
C5_ProgressInScrollableRange ==
    Updated /\ UpdMax > 0 /\ 0 <= UpdOffset /\ UpdOffset <= UpdMax =>
        /\ IsPercentOf(UpdOffset, UpdMax)
        /\ UpdOffset = 0 => barWidth.num = 0
        /\ UpdOffset = UpdMax => barWidth.num = 100 * barWidth.den

C5_Witness ==
    /\ Updated
    /\ LastIs({"scroll"})
    /\ UpdOffset = pageYOffset
    /\ UpdMax = 3 * ScrollStep
    /\ UpdOffset = ScrollStep
    /\ barWidth = Frac(100, 3)

(* C17: once scrolling has stopped and the throttle's timer has fired (no
   timer is pending and the throttle is open), the width written is the
   progress of the current scroll offset.  Stated for the states whose
   viewport and document heights are those the latest update read, with
   the document taller than the viewport and the offsets within the scroll
   range. *)
C17_ProgressCatchesUp ==
    /\ Updated
    /\ "scroll" \in handlers
    /\ ~inThrottle
    /\ timers = <<>>
    /\ UpdWin = innerHeight
    /\ UpdDoc = scrollHeight
    /\ UpdMax > 0
    /\ 0 <= UpdOffset /\ UpdOffset <= UpdMax
    /\ 0 <= pageYOffset /\ pageYOffset <= UpdMax
    => barWidth = update(innerHeight, scrollHeight, pageYOffset)

(* C6: whatever was scrolled or laid out, the width written by the latest
   update is a number between 0 and 100. *)
C6_WidthIsPercentage ==
    Updated =>
        /\ barWidth.kind = "num"
        /\ 0 <= barWidth.num
        /\ barWidth.num <= 100 * barWidth.den
(* ---- the contact form: validation over all short inputs *)

MaxNameLen == 2
MaxEmailLen == 5

EmailChars == {"a", " ", "@", "."}

NameInputs == SeqsUpTo({"a", " "}, MaxNameLen)
EmailInputs == SeqsUpTo(EmailChars, MaxEmailLen)
MessageInputs == {<<>>, <<" ">>, <<"a">>}

InitValidate ==
    /\ PlainContent
    /\ InitProgram
    /\ Unlimited
    /\ PlainPage
    /\ PlainGeometry
    /\ toggleInNavbar = TRUE
    /\ linksInNavbar = TRUE
    /\ innerWidth = MobileBreakpoint
    /\ fields \in [name : NameInputs, email : EmailInputs, message : MessageInputs]

NextValidate ==
    \/ Startup
    \/ Submit

SpecValidate == InitValidate /\ [][NextValidate]_vars

(* ---- the contact form: submissions, edits and timers *)

SampleEmail(local) == <<local, "@", "a", ".", "a">>

Fields(n, e, m) == [name |-> n, email |-> e, message |-> m]

(* One input per validation outcome, and two that pass. *)
SampleFields ==
    {Fields(<<" ">>, SampleEmail("a"), <<"a">>),
     Fields(<<"a">>, <<"a">>, <<"a">>),
     Fields(<<"a">>, SampleEmail("a"), <<>>),
     Fields(<<"a">>, SampleEmail("a"), <<"a">>),
     Fields(<<"b">>, SampleEmail("b"), <<"b">>)}

InitForm ==
    /\ PlainContent
    /\ InitProgram
    /\ Unlimited
    /\ PlainPage
    /\ PlainGeometry
    /\ toggleInNavbar = TRUE
    /\ linksInNavbar = TRUE
    /\ innerWidth = MobileBreakpoint
    /\ fields = EmptyFields

NextForm ==
    \/ Startup
    \/ \E d \in SampleFields : TypeFields(d)
    \/ Submit
    \/ \E d \in TickChoices : Tick(d)
    \/ SubmitTimeout
    \/ HideTimeout

SpecForm == InitForm /\ [][NextForm]_vars

(* The browser's event loop runs every timer that is due, and time goes on. *)
SpecFormFair ==
    /\ SpecForm
    /\ WF_vars(\E d \in TickChoices : Tick(d))
    /\ WF_vars(SubmitTimeout)
    /\ WF_vars(HideTimeout)
----------------------------------------------------------------------------
(* Properties of the contact form *)

Blank(s) == \A i \in DOMAIN s : s[i] \in Whitespace

(* local@domain.tld: one '@', no whitespace, something before the '@', and
   after it a '.' that is neither the first nor the last character. *)
EmailShape(e) ==
    /\ Cardinality({i \in DOMAIN e : e[i] = "@"}) = 1
    /\ \A i \in DOMAIN e : e[i] \notin Whitespace
    /\ LET at == CHOOSE i \in DOMAIN e : e[i] = "@" IN
       /\ at > 1
       /\ \E j \in DOMAIN e : e[j] = "." /\ at + 1 < j /\ j < Len(e)

(* The rule the claim says fails first for name n, email e, message m. *)
FirstFailing(n, e, m) ==
    IF Blank(n) THEN "name"
    ELSE IF ~EmailShape(e) THEN "email"
    ELSE IF Blank(m) THEN "message"
    ELSE "ok"

SubmissionPending == \E i \in DOMAIN timers : timers[i].kind = "submit"

(* C7: a submit shows the error of the first failing rule in the order
   name, email, message, and shows it once, starts no mock submission and
   leaves the submit control enabled; when no rule fails it shows no error
   and the mock submission starts. *)
C7_FirstFailingRuleWins ==
    LastIs({"submit"}) =>
        LET rule == FirstFailing(submitted[1], submitted[2], submitted[3]) IN
        /\ rule # "ok" =>
              /\ statusText = ErrorText(rule)
              /\ statusClass = "error"
              /\ Last.out = 1
              /\ ~SubmissionPending
              /\ ~submitDisabled
              /\ submitLabel = OriginalLabel
        /\ rule = "ok" =>
              /\ Last.out = 0
              /\ SubmissionPending

C7_Witness ==
    /\ LastIs({"submit"})
    /\ Blank(submitted[1])
    /\ ~EmailShape(submitted[2])
    /\ Blank(submitted[3])
    /\ statusText = ErrorText("name")

(* C8: a valid submit disables the control and shows the loading label at
   once; the control stays disabled while the timer is pending; the timer
   does fire; and when it has fired the status is the success message with
   the name and email of the submit event, the form is reset and the
   control is enabled with its original label. *)
C8_Disabled ==
    /\ LastIs({"submit"})
           /\ FirstFailing(submitted[1], submitted[2], submitted[3]) = "ok"
       => submitDisabled /\ submitLabel = LoadingLabel /\ SubmissionPending
    /\ SubmissionPending => submitDisabled /\ submitLabel = LoadingLabel

C8_Completed ==
    LastIs({"submitTimeout"}) =>
        /\ statusText = SuccessText(submitted[1], submitted[2])
        /\ statusClass = "success"
        /\ fields = EmptyFields
        /\ ~submitDisabled
        /\ submitLabel = OriginalLabel

C8_SubmissionLifecycle ==
    /\ []C8_Disabled
    /\ []C8_Completed
    /\ submitDisabled ~> (LastIs({"submitTimeout"}) /\ ~submitDisabled)

C8_Witness ==
    /\ Len(hist) = 2
    /\ hist[1].ev = "type"
    /\ hist[2].ev = "submitTimeout"
    /\ statusText = SuccessText(<<"a">>, SampleEmail("a"))
    /\ statusClass = "success"
    /\ ~submitDisabled
(* A 'hide' timer is pending with time left.  The timer of the latest
   showStatus call is the youngest 'hide' timer, the one with the most time
   left. *)
HidePending ==
    \E i \in DOMAIN timers : timers[i].kind = "hide" /\ timers[i].remaining > 0

(* C18: a status message keeps its type class until the hide timer of the
   showStatus call that displayed it fires: while a hide timer has time
   left, and so the one of the latest message has, the status element has
   the class 'error' or 'success'. *)
C18_MessageStaysVisible ==
    "formStatus" \in present /\ HidePending => statusClass \in {"error", "success"}

----------------------------------------------------------------------------
(* ---- the whole page, on any page markup *)

(* The pages: any subset of the expected elements may be missing (the
   submit control is inside the form), or IntersectionObserver is
   unavailable, or a nav link's href is no valid selector. *)
Pages ==
    {p \in SUBSET Expected : "submitButton" \in p => "contactForm" \in p}

MaxEvents == 4

ValidFields == Fields(<<"a">>, SampleEmail("a"), <<"a">>)

InitPage ==
    /\ PlainContent
    /\ InitProgram
    /\ budget = MaxEvents
    /\ present \in Pages
    /\ hasIO \in BOOLEAN
    /\ hrefOk \in BOOLEAN
    /\ present # Expected => hasIO /\ hrefOk
    /\ sections = Links
    /\ dataSection = IdentityMap
    /\ linkActive = [l \in Links |-> l = "home"]
    /\ PlainGeometry
    /\ toggleInNavbar = TRUE
    /\ linksInNavbar = TRUE
    /\ innerWidth = MobileBreakpoint
    /\ fields = EmptyFields

NextPage ==
    \/ Startup
    \/ ToggleClick
    \/ LinkClick("about")
    \/ OutsideClick
    \/ KeyEscape
    \/ Intersect(<<<<"about", TRUE>>>>)
    \/ Scroll(ScrollStep - pageYOffset)
    \/ Load
    \/ TypeFields(ValidFields)
    \/ Submit
    \/ \E d \in NextDeadline : Tick(d)
    \/ ThrottleTimeout
    \/ SubmitTimeout
    \/ HideTimeout

SpecPage == InitPage /\ [][NextPage]_vars
----------------------------------------------------------------------------
(* Properties of startup and of pages with missing elements *)

(* C9: when init() has caught an error thrown by one module's init, the
   other modules are initialized all the same: the form's submit listener,
   the Escape listener, the lazy-image observer and the global error
   listeners are registered. *)
C9_OtherModulesInitialised ==
    started /\ initError =>
        contactFormInit \cup performanceInit \cup accessibilityInit
            \cup errorHandlerInit \subseteq handlers

(* C10: on a page that lacks any subset of the expected elements (and on
   which IntersectionObserver and the links' hrefs are in order), neither
   init() nor any listener or timer callback throws. *)
C10_MissingElementsNeverThrow ==
    hasIO /\ hrefOk => thrown = {} /\ ~initError
----------------------------------------------------------------------------
(* ---- the reveal animations *)

MaxReveal == 3

(* The elements of S in list order. *)
RECURSIVE SortedSeq(_)
SortedSeq(S) ==
    IF S = {} THEN <<>>
    ELSE LET m == CHOOSE x \in S : \A y \in S : x <= y
         IN  <<m>> \o SortedSeq(S \ {m})

(* The entry lists the reveal observer can deliver: one entry for each of
   some elements it observes, in the order they were observed, each either
   intersecting or not. *)
RevealBatches ==
    UNION {{[i \in 1..Cardinality(S) |-> <<SortedSeq(S)[i], f[SortedSeq(S)[i]]>>] :
                f \in [S -> BOOLEAN]} : S \in (SUBSET observed) \ {{}}}

InitReveal ==
    /\ revealCount \in 1..MaxReveal
    /\ framePeriod = DefaultDuration \div 4
    /\ InitProgram
    /\ Unlimited
    /\ PlainPage
    /\ PlainGeometry
    /\ hash = ""
    /\ sectionTop = PlainTops
    /\ toggleInNavbar = TRUE
    /\ linksInNavbar = TRUE
    /\ innerWidth = MobileBreakpoint
    /\ fields = EmptyFields

NextReveal ==
    \/ Startup
    \/ \E es \in RevealBatches : Reveal(es)
    \/ \E d \in NextDeadline : Tick(d)
    \/ ShowTimeout

SpecReveal == InitReveal /\ [][NextReveal]_vars

(* The browser's event loop runs every timer that is due, and time goes on. *)
SpecRevealFair ==
    /\ SpecReveal
    /\ WF_vars(\E d \in NextDeadline : Tick(d))
    /\ WF_vars(ShowTimeout)

----------------------------------------------------------------------------
(* Properties of the reveal animations *)

(* C11: an element that has class 'show' has it in every later state: no
   step of the program (intersection callback, timer, any other event)
   removes it. *)
C11_ShownStaysShown == [][shown \subseteq shown']_vars

C11_Witness ==
    /\ 1 \in shown
    /\ LastIs({"reveal"})
    /\ \E i \in DOMAIN Last.arg : ~Last.arg[i][2]

(* The elements the last callback reported as intersecting. *)
RevealReported ==
    {Last.arg[i][1] : i \in {j \in DOMAIN Last.arg : Last.arg[j][2]}}

C12_OneTimer ==
    /\ \A e \in DOMAIN scheduled :
          /\ scheduled[e] <= 1
          /\ scheduled[e] = 1 => e \notin observed
    /\ LastIs({"reveal"}) =>
          \A e \in RevealReported : scheduled[e] = 1 /\ e \notin observed

(* C12: the first callback that reports an element as intersecting starts
   exactly one show timer for it and stops observing it, no later callback
   starts another, and the timer fires: every element reported as
   intersecting is eventually shown. *)
C12_RevealOneShot ==
    /\ []C12_OneTimer
    /\ \A e \in 1..MaxReveal :
          (e \in DOMAIN scheduled /\ scheduled[e] >= 1) ~> (e \in shown)

C12_Witness ==
    /\ revealCount >= 2
    /\ LastIs({"showTimeout"})
    /\ shown = 1..revealCount
    /\ observed = {}
    /\ \A e \in DOMAIN scheduled : scheduled[e] = 1

(* C13: every show timer is started with a delay of 50 ms times the list
   index (from 0) of its element among the reveal elements, whatever batch
   the element was reported in. *)
C13_DelayIsListIndex ==
    \A i \in DOMAIN timers :
        timers[i].kind = "show" =>
            timers[i].data[2] = RevealStagger * (timers[i].data[1] - 1)
----------------------------------------------------------------------------
(* ---- the smooth scroll *)

(* Frames come a fixed period apart, or a multiple of it when frames are
   dropped.  A quarter of the link click's duration divides both durations;
   half of the fragment scroll's duration divides only that one. *)
FramePeriods == {DefaultDuration \div 4, HashDuration \div 2}

(* Half of either duration. *)
CoarsePeriods == {DefaultDuration \div 2, HashDuration \div 2}

FrameTicks == IF timers # <<>> THEN {MinRemaining(timers)} ELSE {framePeriod}

(* A page opened with or without a fragment, whose 'home' link may point
   to an id the page lacks. *)
InitScrollOn(periods) ==
    /\ revealCount = 0
    /\ sectionTop = PlainTops
    /\ framePeriod \in periods
    /\ InitProgram
    /\ Unlimited
    /\ hash \in {"", "home", "contact"}
    /\ present = Expected
    /\ hasIO = TRUE
    /\ hrefOk = TRUE
    /\ sections \in {Links, Links \ {"home"}}
    /\ dataSection = IdentityMap
    /\ linkActive = [l \in Links |-> l = "home"]
    /\ PlainGeometry
    /\ toggleInNavbar = TRUE
    /\ linksInNavbar = TRUE
    /\ innerWidth = MobileBreakpoint
    /\ fields = EmptyFields

InitScroll == InitScrollOn(FramePeriods)

NextScroll ==
    \/ Startup
    \/ \E l \in Links : LinkClick(l)
    \/ HashTimeout
    \/ \E d \in FrameTicks : Tick(d)
    \/ Frame

SpecScroll == InitScroll /\ [][NextScroll]_vars

(* Time goes on, the browser runs the timers that are due and delivers the
   animation frames that were requested. *)
SpecScrollFair ==
    /\ InitScrollOn(CoarsePeriods)
    /\ [][NextScroll]_vars
    /\ WF_vars(\E d \in FrameTicks : Tick(d))
    /\ WF_vars(HashTimeout)
    /\ WF_vars(Frame)
----------------------------------------------------------------------------
(* Properties of the smooth scroll.  Right after a frame, writes holds one
   record per callback that ran in it, and a pending callback's age is the
   timeElapsed of that frame. *)

AfterFrame == LastIs({"frame"}) /\ ~frameGap

C15_FrameRequests ==
    AfterFrame =>
        /\ \A i \in DOMAIN writes :
              writes[i].final <=> writes[i].elapsed >= writes[i].duration
        /\ Len(anims) = Cardinality({i \in DOMAIN writes : ~writes[i].final})
        /\ \A i \in DOMAIN anims :
              anims[i].started /\ anims[i].age < anims[i].duration

(* The event just handled is a click on a link whose selector matches no
   element. *)
C15_MissedLink ==
    /\ LastIs({"link"})
    /\ Last.arg[1] \notin sections
    /\ thrown = {}

(* C15: with frame timestamps that increase, a smooth scroll requests a
   further frame after every frame whose elapsed time is below the duration
   and none after the first frame whose elapsed time has reached it, so the
   pending callbacks run out; and a click on a link whose selector matches
   no element requests no frame. *)
C15_ScrollTerminates ==
    /\ []C15_FrameRequests
    /\ [][hist' # hist /\ C15_MissedLink' => anims' = anims]_vars
    /\ (anims # <<>>) ~> (anims = <<>>)

C15_Witness ==
    /\ AfterFrame
    /\ anims = <<>>
    /\ Len(writes) = 1
    /\ writes[1].final
    /\ writes[1].elapsed > writes[1].duration
    /\ hist[1].ev = "frame"

LastScroll == scrolls[1]

(* C19: when a smooth scroll was started while a frame callback of an
   earlier one was pending, then with no frame callback pending the scroll
   offset is the target position of the scroll started last (as far as
   the page can scroll).  Stated for the frames after which no callback is
   pending and whose last callbacks ran exactly at their duration. *)
C19_LastScrollWins ==
    /\ scrolls # <<>>
    /\ LastScroll.overlap
    /\ AfterFrame
    /\ anims = <<>>
    /\ \A i \in DOMAIN writes : writes[i].final => writes[i].elapsed = writes[i].duration
    => pageYOffset = ClampOffset(LastScroll.target, innerHeight, scrollHeight)

(* x <= y for the fraction x and the integer y, and the other way round *)
FracAtMost(x, y) == x.num <= y * x.den
FracAtLeast(x, y) == x.num >= y * x.den

(* C20: every position a frame passes to window.scrollTo lies between the
   scroll's start position and its target position, and the position of a
   scroll's last frame is the target position. *)
C20_LandsOnTarget ==
    AfterFrame =>
        \A i \in DOMAIN writes :
            LET w == writes[i]
                targetPosition == w.start + w.distance
            IN  /\ w.distance >= 0 =>
                       FracAtLeast(w.pos, w.start) /\ FracAtMost(w.pos, targetPosition)
                /\ w.distance <= 0 =>
                       FracAtMost(w.pos, w.start) /\ FracAtLeast(w.pos, targetPosition)
                /\ w.final => w.pos = Frac(targetPosition, 1)

====
